---- MODULE Spec2Model ----
(***************************************************************************)
(* A model of skill_tree_generator.py: the SkillTreeGenerator pipeline     *)
(* extract_text_from_pdf -> analyze_resume_with_xai /                      *)
(* _fallback_skill_extraction -> build_skill_tree -> JSON and HTML files.  *)
(*                                                                         *)
(* Representation of Python values.                                        *)
(*   A character is a TLA+ string: an ASCII character is the one-character *)
(*   string, and a non-ASCII character is written "U+XXXX" (its code       *)
(*   point).  A Python str is a sequence of characters.                    *)
(*   A JSON / Python value is a tagged record:                             *)
(*     [t |-> "str",  chars |-> <<characters>>]                            *)
(*     [t |-> "list", items |-> <<values>>]                                *)
(*     [t |-> "dict", pairs |-> <<[k |-> <<characters>>, v |-> value]>>]   *)
(*        (insertion ordered, as Python dicts are; keys distinct)          *)
(*     [t |-> "null"]                                                      *)
(***************************************************************************)
EXTENDS Integers, Sequences, FiniteSets, TLC

----------------------------------------------------------------------------
(* Bounds of the model.                                                    *)

\* pages a backend reads from one document
MaxPages == 2
\* entries of a list in a skill record passed to build_skill_tree directly
MaxSkills == 2
\* categories of the "technical" mapping in such a record
MaxCats == 2
\* words of a text passed to _fallback_skill_extraction directly
MaxWords == 2

----------------------------------------------------------------------------
(* String literals of the source, as character sequences.                  *)

S_skills == <<"s", "k", "i", "l", "l", "s">>
S_technical == <<"t", "e", "c", "h", "n", "i", "c", "a", "l">>
S_soft_skills == <<"s", "o", "f", "t", "_", "s", "k", "i", "l", "l", "s">>
S_domains == <<"d", "o", "m", "a", "i", "n", "s">>
S_certifications == <<"c", "e", "r", "t", "i", "f", "i", "c", "a", "t", "i", "o", "n", "s">>
S_experience_levels == <<"e", "x", "p", "e", "r", "i", "e", "n", "c", "e", "_", "l", "e", "v", "e", "l", "s">>
S_skill_relationships == <<"s", "k", "i", "l", "l", "_", "r", "e", "l", "a", "t", "i", "o", "n", "s", "h", "i", "p", "s">>
S_name == <<"n", "a", "m", "e">>
S_children == <<"c", "h", "i", "l", "d", "r", "e", "n">>
S_type == <<"t", "y", "p", "e">>
S_skill == <<"s", "k", "i", "l", "l">>
S_certification == <<"c", "e", "r", "t", "i", "f", "i", "c", "a", "t", "i", "o", "n">>
S_Skills == <<"S", "k", "i", "l", "l", "s">>
S_Technical_Skills == <<"T", "e", "c", "h", "n", "i", "c", "a", "l", " ", "S", "k", "i", "l", "l", "s">>
S_Soft_Skills == <<"S", "o", "f", "t", " ", "S", "k", "i", "l", "l", "s">>
S_Domain_Expertise == <<"D", "o", "m", "a", "i", "n", " ", "E", "x", "p", "e", "r", "t", "i", "s", "e">>
S_Certifications == <<"C", "e", "r", "t", "i", "f", "i", "c", "a", "t", "i", "o", "n", "s">>
S_SKILL_TREE_DATA == <<"S", "K", "I", "L", "L", "_", "T", "R", "E", "E", "_", "D", "A", "T", "A">>
S_choices == <<"c", "h", "o", "i", "c", "e", "s">>
S_message == <<"m", "e", "s", "s", "a", "g", "e">>
S_content == <<"c", "o", "n", "t", "e", "n", "t">>

\* tech_keywords of _fallback_skill_extraction, in declaration order
tech_keywords ==
  <<
    [key |-> <<"p", "r", "o", "g", "r", "a", "m", "m", "i", "n", "g", "_", "l", "a", "n", "g", "u", "a", "g", "e", "s">>,
     keywords |-> <<
        <<"P", "y", "t", "h", "o", "n">>,
        <<"J", "a", "v", "a", "S", "c", "r", "i", "p", "t">>,
        <<"J", "a", "v", "a">>,
        <<"C", "+", "+">>,
        <<"C", "#">>,
        <<"G", "o">>,
        <<"R", "u", "s", "t">>,
        <<"T", "y", "p", "e", "S", "c", "r", "i", "p", "t">>,
        <<"S", "Q", "L">>,
        <<"R">>,
        <<"S", "w", "i", "f", "t">>,
        <<"K", "o", "t", "l", "i", "n">>
     >>],
    [key |-> <<"f", "r", "a", "m", "e", "w", "o", "r", "k", "s">>,
     keywords |-> <<
        <<"R", "e", "a", "c", "t">>,
        <<"V", "u", "e">>,
        <<"A", "n", "g", "u", "l", "a", "r">>,
        <<"D", "j", "a", "n", "g", "o">>,
        <<"F", "l", "a", "s", "k">>,
        <<"F", "a", "s", "t", "A", "P", "I">>,
        <<"S", "p", "r", "i", "n", "g">>,
        <<"N", "o", "d", "e", ".", "j", "s">>,
        <<"E", "x", "p", "r", "e", "s", "s">>,
        <<"T", "e", "n", "s", "o", "r", "F", "l", "o", "w">>,
        <<"P", "y", "T", "o", "r", "c", "h">>
     >>],
    [key |-> <<"t", "o", "o", "l", "s">>,
     keywords |-> <<
        <<"G", "i", "t">>,
        <<"D", "o", "c", "k", "e", "r">>,
        <<"K", "u", "b", "e", "r", "n", "e", "t", "e", "s">>,
        <<"A", "W", "S">>,
        <<"A", "z", "u", "r", "e">>,
        <<"G", "C", "P">>,
        <<"J", "e", "n", "k", "i", "n", "s">>,
        <<"C", "I", "/", "C", "D">>,
        <<"L", "i", "n", "u", "x">>,
        <<"M", "o", "n", "g", "o", "D", "B">>,
        <<"P", "o", "s", "t", "g", "r", "e", "S", "Q", "L">>,
        <<"R", "e", "d", "i", "s">>
     >>]
  >>

----------------------------------------------------------------------------
(* Characters: str.lower, str.upper, str.strip, str.title on the alphabet  *)
(* of the model (ASCII, and the pair U+00C9 / U+00E9 of non-ASCII letters).*)

UpperLetters ==
  <<"A", "B", "C", "D", "E", "F", "G", "H", "I", "J", "K", "L", "M",
    "N", "O", "P", "Q", "R", "S", "T", "U", "V", "W", "X", "Y", "Z", "U+00C9">>

LowerLetters ==
  <<"a", "b", "c", "d", "e", "f", "g", "h", "i", "j", "k", "l", "m",
    "n", "o", "p", "q", "r", "s", "t", "u", "v", "w", "x", "y", "z", "U+00E9">>

IndexIn(c, letters) ==
  IF \E i \in DOMAIN letters : letters[i] = c
    THEN CHOOSE i \in DOMAIN letters : letters[i] = c
    ELSE 0

\* str.lower() of one character
LowerChar(c) ==
  IF IndexIn(c, UpperLetters) # 0 THEN LowerLetters[IndexIn(c, UpperLetters)] ELSE c

\* str.upper() of one character
UpperChar(c) ==
  IF IndexIn(c, LowerLetters) # 0 THEN UpperLetters[IndexIn(c, LowerLetters)] ELSE c

\* a cased character (a letter), as str.title() tests it
IsCased(c) == IndexIn(c, UpperLetters) # 0 \/ IndexIn(c, LowerLetters) # 0

\* str.lower() left out: the text is compared as it is
LowerMissing(s) == s

\* str.lower()
Lower(s) == [i \in DOMAIN s |-> LowerChar(s[i])]

\* the characters str.strip() removes
Whitespace == {" ", "\n", "\t", "\r"}

RECURSIVE LStrip(_)
LStrip(s) ==
  IF s # <<>> /\ Head(s) \in Whitespace THEN LStrip(Tail(s)) ELSE s

RECURSIVE RStrip(_)
RStrip(s) ==
  IF s # <<>> /\ s[Len(s)] \in Whitespace
    THEN RStrip(SubSeq(s, 1, Len(s) - 1))
    ELSE s

\* str.strip()
Strip(s) == RStrip(LStrip(s))

\* s.startswith(prefix)
StartsWith(s, prefix) ==
  Len(prefix) <= Len(s) /\ SubSeq(s, 1, Len(prefix)) = prefix

\* Python's `sub in s` on strings: a left-to-right scan for a match
RECURSIVE FindFrom(_, _, _)
FindFrom(s, sub, i) ==
  IF i + Len(sub) - 1 > Len(s) THEN FALSE
  ELSE IF SubSeq(s, i, i + Len(sub) - 1) = sub THEN TRUE
  ELSE FindFrom(s, sub, i + 1)

Contains(s, sub) == FindFrom(s, sub, 1)

----------------------------------------------------------------------------
(* JSON / Python values.                                                   *)

Str(s) == [t |-> "str", chars |-> s]
JList(s) == [t |-> "list", items |-> s]
JDict(s) == [t |-> "dict", pairs |-> s]
JNull == [t |-> "null"]

IsDict(x) == x.t = "dict"
IsList(x) == x.t = "list"
IsStr(x) == x.t = "str"
IsNull(x) == x.t = "null"

\* `key in d` for a dict d
Has(d, key) == \E i \in DOMAIN d.pairs : d.pairs[i].k = key

\* d[key] for a dict d that has the key
Item(d, key) == d.pairs[CHOOSE i \in DOMAIN d.pairs : d.pairs[i].k = key].v

\* d.get(key, default) for a dict d
Get(d, key, default) == IF Has(d, key) THEN Item(d, key) ELSE default

\* the elements a `for` loop over a list, str or dict visits (and x[0] is
\* the first of them, for a list or str)
Iter(x) ==
  IF IsList(x) THEN x.items
  ELSE IF IsStr(x) THEN [i \in DOMAIN x.chars |-> Str(<<x.chars[i]>>)]
  ELSE [i \in DOMAIN x.pairs |-> Str(x.pairs[i].k)]

\* truth value of a value, as `if x:` tests it: None and the empty list,
\* str and dict are false
Truthy(x) == ~IsNull(x) /\ Iter(x) # <<>>

----------------------------------------------------------------------------
(* _fallback_skill_extraction                                              *)

\* the inner loop: the keywords of one category found in resume_lower,
\* appended in the order the loop visits them
RECURSIVE MatchKeywords(_, _, _)
MatchKeywords(keywords, resume_lower, found) ==
  IF keywords = <<>> THEN found
  ELSE MatchKeywords(Tail(keywords), resume_lower,
         IF Contains(resume_lower, Lower(Head(keywords)))
           THEN Append(found, Str(Head(keywords)))
           ELSE found)

\* found_skills after the two loops
FoundSkills(resume_text) ==
  JDict([i \in DOMAIN tech_keywords |->
           [k |-> tech_keywords[i].key,
            v |-> JList(MatchKeywords(tech_keywords[i].keywords,
                                      Lower(resume_text), <<>>))]])

FallbackSkillExtraction(resume_text) ==
  JDict(<<
    [k |-> S_skills,
     v |-> JDict(<<
             [k |-> S_technical, v |-> FoundSkills(resume_text)],
             [k |-> S_soft_skills, v |-> JList(<<>>)],
             [k |-> S_domains, v |-> JList(<<>>)],
             [k |-> S_certifications, v |-> JList(<<>>)] >>)],
    [k |-> S_experience_levels, v |-> JDict(<<>>)],
    [k |-> S_skill_relationships, v |-> JList(<<>>)] >>)

----------------------------------------------------------------------------
(* extract_text_from_pdf                                                   *)

\* What page.extract_text() does on one page: it returns a str (possibly
\* empty or only whitespace), returns None, or raises.
PageTexts ==
  { <<>>,
    <<" ">>,
    <<"G", "o">>,
    <<"J", "A", "V", "A">> }

PageOutcomes ==
  {[kind |-> "text", text |-> t] : t \in PageTexts}
    \cup {[kind |-> "none", text |-> <<>>], [kind |-> "raise", text |-> <<>>]}

RECURSIVE SeqsUpTo(_, _)
SeqsUpTo(S, n) ==
  IF n = 0 THEN {<<>>}
  ELSE LET shorter == SeqsUpTo(S, n - 1)
       IN  shorter \cup {Append(q, x) : q \in {r \in shorter : Len(r) = n - 1}, x \in S}

\* What one backend sees of the document: whether opening it succeeds, and
\* the outcome of extract_text() on each page.
DocumentViews ==
  {[opens |-> FALSE, pages |-> <<>>]}
    \cup {[opens |-> TRUE, pages |-> p] : p \in SeqsUpTo(PageOutcomes, MaxPages)}

\* the `for page in pdf.pages` loop inside the try block: text accumulated
\* so far is kept when a page raises
RECURSIVE ReadPages(_, _)
ReadPages(text, pages) ==
  IF pages = <<>> THEN [text |-> text, raised |-> FALSE]
  ELSE IF Head(pages).kind = "raise" THEN [text |-> text, raised |-> TRUE]
  ELSE IF Head(pages).kind = "text" /\ Head(pages).text # <<>>
    THEN ReadPages(text \o Head(pages).text \o <<"\n">>, Tail(pages))
  ELSE ReadPages(text, Tail(pages))

\* one try/except block around a backend
ReadBackend(text, view) ==
  IF view.opens THEN ReadPages(text, view.pages)
  ELSE [text |-> text, raised |-> TRUE]

\* The whole method.  The result records what happened: kind is "return"
\* (value is the returned str) or "raise" (exc is the exception), text is
\* the local variable text at the end, and for each backend whether it was
\* tried and whether it raised (aText is text after the first backend).
ExtractTextFromPdf(has_pdfplumber, has_PyPDF2, viewA, viewB) ==
  IF ~has_pdfplumber /\ ~has_PyPDF2
    THEN [kind |-> "raise", exc |-> "ImportError", value |-> <<>>, text |-> <<>>,
          aTried |-> FALSE, aRaised |-> FALSE, aText |-> <<>>,
          bTried |-> FALSE, bRaised |-> FALSE]
  ELSE
    LET a == IF has_pdfplumber THEN ReadBackend(<<>>, viewA)
             ELSE [text |-> <<>>, raised |-> FALSE]
        bTried == a.text = <<>> /\ has_PyPDF2
        b == IF bTried THEN ReadBackend(a.text, viewB)
             ELSE [text |-> a.text, raised |-> FALSE]
    IN  [kind |-> IF b.text = <<>> THEN "raise" ELSE "return",
         exc |-> IF b.text = <<>> THEN "Exception" ELSE "none",
         value |-> IF b.text = <<>> THEN <<>> ELSE Strip(b.text),
         text |-> b.text,
         aTried |-> has_pdfplumber, aRaised |-> a.raised, aText |-> a.text,
         bTried |-> bTried, bRaised |-> b.raised]

----------------------------------------------------------------------------
(* analyze_resume_with_xai                                                 *)

(***************************************************************************)
(* The text of the message content is described by its segments, in order: *)
(*   "fence"  a line that, after its leading whitespace (indent), starts   *)
(*            with three backticks;                                        *)
(*   "blank"  a line of whitespace only;                                   *)
(*   "json"   a block of lines that is the text of one JSON document, doc  *)
(*            (no line of a JSON document starts with a backtick);         *)
(*   "prose"  a block of lines that is not JSON and has no fence line.     *)
(* json.loads is the standard library's parser: it is modelled by its      *)
(* result on such a text, which is the document when the text holds        *)
(* exactly one JSON document besides whitespace, and JSONDecodeError       *)
(* otherwise.                                                              *)
(***************************************************************************)
Fence(indent) == [kind |-> "fence", indent |-> indent, doc |-> JNull]
Blank == [kind |-> "blank", indent |-> 0, doc |-> JNull]
Prose == [kind |-> "prose", indent |-> 0, doc |-> JNull]
JsonText(doc) == [kind |-> "json", indent |-> 0, doc |-> doc]

\* a str given by its segments
Text(segments) == [t |-> "text", segments |-> segments]

RECURSIVE DropLeadingBlank(_)
DropLeadingBlank(segs) ==
  IF segs # <<>> /\ Head(segs).kind = "blank" THEN DropLeadingBlank(Tail(segs)) ELSE segs

RECURSIVE DropTrailingBlank(_)
DropTrailingBlank(segs) ==
  IF segs # <<>> /\ segs[Len(segs)].kind = "blank"
    THEN DropTrailingBlank(SubSeq(segs, 1, Len(segs) - 1))
    ELSE segs

\* content.strip(): whitespace-only lines at both ends go, and so does the
\* leading whitespace of the first line left
StripContent(segs) ==
  LET inner == DropTrailingBlank(DropLeadingBlank(segs))
  IN  [i \in DOMAIN inner |->
         IF i = 1 THEN [inner[i] EXCEPT !.indent = 0] ELSE inner[i]]

\* content.startswith('```')
StartsWithFence(segs) ==
  segs # <<>> /\ segs[1].kind = "fence" /\ segs[1].indent = 0

\* line.strip().startswith('```')
IsFenceLine(seg) == seg.kind = "fence"

\* lines 133-137: strip, and when the content starts with a fence drop
\* every fence line
RemoveCodeFences(segs) ==
  LET content == StripContent(segs)
  IN  IF StartsWithFence(content)
        THEN SelectSeq(content, LAMBDA seg : ~IsFenceLine(seg))
        ELSE content

\* json.loads(content)
JsonLoads(segs) ==
  LET tokens == SelectSeq(segs, LAMBDA seg : seg.kind # "blank")
  IN  IF Len(tokens) = 1 /\ tokens[1].kind = "json"
        THEN [ok |-> TRUE, value |-> tokens[1].doc]
        ELSE [ok |-> FALSE, value |-> JNull]

\* result.get('choices', [{}])[0].get('message', {}).get('content', '{}'):
\* the content, or the exception the expression raises
GetContent(result) ==
  IF ~IsDict(result) THEN [exc |-> "AttributeError", content |-> JNull]
  ELSE
    LET choices == Get(result, S_choices, JList(<<JDict(<<>>)>>))
    IN  IF IsNull(choices) THEN [exc |-> "TypeError", content |-> JNull]
        ELSE IF IsDict(choices) THEN [exc |-> "KeyError", content |-> JNull]
        ELSE IF Iter(choices) = <<>> THEN [exc |-> "IndexError", content |-> JNull]
        ELSE
          LET first == Iter(choices)[1]
          IN  IF ~IsDict(first) THEN [exc |-> "AttributeError", content |-> JNull]
              ELSE
                LET message == Get(first, S_message, JDict(<<>>))
                IN  IF ~IsDict(message)
                      THEN [exc |-> "AttributeError", content |-> JNull]
                      ELSE [exc |-> "none",
                            content |-> Get(message, S_content,
                                            Text(<<JsonText(JDict(<<>>))>>))]

\* What the single remote call does.
\*   "transport_error"  requests.post raises (connection error, timeout)
\*   "http_error"       raise_for_status raises (non-success status)
\*   "body_not_json"    response.json() raises; jsonlib tells whether the
\*                      exception is a json.JSONDecodeError (requests built
\*                      on the standard json module) or not (requests built
\*                      on simplejson)
\*   "body"             response.json() returns the value body
TransportError == [kind |-> "transport_error", jsonlib |-> "none", body |-> JNull]
HttpError == [kind |-> "http_error", jsonlib |-> "none", body |-> JNull]
BodyNotJson(jsonlib) == [kind |-> "body_not_json", jsonlib |-> jsonlib, body |-> JNull]
Body(value) == [kind |-> "body", jsonlib |-> "none", body |-> value]

\* a well-formed body whose message content is the given value
BodyWithContent(content) ==
  Body(JDict(<<
    [k |-> S_choices,
     v |-> JList(<<JDict(<<
             [k |-> S_message,
              v |-> JDict(<<[k |-> S_content, v |-> content]>>)] >>)>>)] >>))

\* The whole method, given what the remote call does.  kind is "return"
\* (value is the returned record) or "raise" (exc left the method);
\* fallbacks counts the calls of _fallback_skill_extraction.
AnalyzeResumeWithXai(text, resp) ==
  LET fallback == [kind |-> "return", exc |-> "none",
                   value |-> FallbackSkillExtraction(text), fallbacks |-> 1]
  IN
  IF resp.kind \in {"transport_error", "http_error"} THEN fallback
  ELSE IF resp.kind = "body_not_json" THEN
    \* `except json.JSONDecodeError` prints content[:500], and content was
    \* never assigned
    IF resp.jsonlib = "json"
      THEN [kind |-> "raise", exc |-> "UnboundLocalError",
            value |-> JNull, fallbacks |-> 0]
      ELSE fallback
  ELSE
    LET got == GetContent(resp.body)
    IN  IF got.exc # "none" THEN fallback
        \* content.strip() on None, a list or a dict: AttributeError
        ELSE IF got.content.t # "text" THEN fallback
        ELSE
          LET parsed == JsonLoads(RemoveCodeFences(got.content.segments))
          IN  IF parsed.ok
                THEN [kind |-> "return", exc |-> "none",
                      value |-> parsed.value, fallbacks |-> 0]
                ELSE fallback

----------------------------------------------------------------------------
(* build_skill_tree                                                        *)

\* str.title(): a cased character is upper-cased when the character before
\* it is not cased, and lower-cased when it is
RECURSIVE TitleFrom(_, _)
TitleFrom(s, previous_is_cased) ==
  IF s = <<>> THEN <<>>
  ELSE IF IsCased(Head(s))
    THEN <<IF previous_is_cased THEN LowerChar(Head(s)) ELSE UpperChar(Head(s))>>
           \o TitleFrom(Tail(s), TRUE)
    ELSE <<Head(s)>> \o TitleFrom(Tail(s), FALSE)

Title(s) == TitleFrom(s, FALSE)

\* category.replace("_", " ")
ReplaceUnderscores(s) == [i \in DOMAIN s |-> IF s[i] = "_" THEN " " ELSE s[i]]

\* category.replace("_", " ").title()
CategoryName(category) == Title(ReplaceUnderscores(category))

\* {"name": skill, "type": type}
Leaf(skill, type) ==
  JDict(<<[k |-> S_name, v |-> skill], [k |-> S_type, v |-> Str(type)]>>)

\* {"name": name, "children": children}
Node(name, children) ==
  JDict(<<[k |-> S_name, v |-> Str(name)], [k |-> S_children, v |-> JList(children)]>>)

\* [{"name": skill, "type": type} for skill in skills]
Leaves(skills, type) ==
  LET items == Iter(skills)
  IN  [i \in DOMAIN items |-> Leaf(items[i], type)]

\* `key in x`, for x a dict, a list or a str
In(key, x) ==
  IF IsDict(x) THEN Has(x, key)
  ELSE IF IsList(x) THEN \E i \in DOMAIN x.items : x.items[i] = Str(key)
  ELSE Contains(x.chars, key)

\* the loop without `if skills:`: a node for every category
RECURSIVE CategoryNodesKeepingEmpty(_)
CategoryNodesKeepingEmpty(items) ==
  IF items = <<>> THEN <<>>
  ELSE <<Node(CategoryName(Head(items).k), Leaves(Head(items).v, S_skill))>>
       \o CategoryNodesKeepingEmpty(Tail(items))

\* the loop over tech_skills.items(): one node per category whose list is
\* not empty, in the dict's order
RECURSIVE CategoryNodes(_)
CategoryNodes(items) ==
  IF items = <<>> THEN <<>>
  ELSE (IF Truthy(Head(items).v)
          THEN <<Node(CategoryName(Head(items).k), Leaves(Head(items).v, S_skill))>>
          ELSE <<>>)
       \o CategoryNodes(Tail(items))

\* one of the three blocks "if skill_data.get("skills", {}).get(key):"
ListBranch(skills, key, name, type) ==
  IF Truthy(Get(skills, key, JNull))
    THEN <<Node(name, Leaves(Item(skills, key), type))>>
    ELSE <<>>

\* skill_data.get("skills"), without the default
SkillsOfNoDefault(data) == Get(data, S_skills, JNull)

\* skill_data.get("skills", {}), for a dict skill_data
SkillsOf(data) == Get(data, S_skills, JDict(<<>>))

\* The whole method: kind is "return" (value is the tree) or "raise".
BuildSkillTree(data) ==
  LET raise(e) == [kind |-> "raise", exc |-> e, value |-> JNull]
  IN
  \* skill_data.get on a value that is not a dict
  IF ~IsDict(data) THEN raise("AttributeError")
  ELSE
    LET skills == SkillsOf(data)
    IN
    \* "technical" in None
    IF IsNull(skills) THEN raise("TypeError")
    \* skill_data["skills"]["technical"] on a list or a str
    ELSE IF In(S_technical, skills) /\ ~IsDict(skills) THEN raise("TypeError")
    \* tech_skills.items() on a value that is not a dict
    ELSE IF In(S_technical, skills) /\ ~IsDict(Item(skills, S_technical))
      THEN raise("AttributeError")
    \* skill_data.get("skills", {}).get("soft_skills") on a list or a str
    ELSE IF ~IsDict(skills) THEN raise("AttributeError")
    ELSE
      LET tech_children ==
            IF Has(skills, S_technical)
              THEN CategoryNodes(Item(skills, S_technical).pairs)
              ELSE <<>>
          tech ==
            IF tech_children # <<>>
              THEN <<Node(S_Technical_Skills, tech_children)>>
              ELSE <<>>
      IN  [kind |-> "return", exc |-> "none",
           value |-> Node(S_Skills,
                       tech
                         \o ListBranch(skills, S_soft_skills, S_Soft_Skills, S_skill)
                         \o ListBranch(skills, S_domains, S_Domain_Expertise, S_skill)
                         \o ListBranch(skills, S_certifications, S_Certifications,
                                       S_certification))]

----------------------------------------------------------------------------
(* json.dumps(tree, indent=2, ensure_ascii=...) and the HTML template      *)

\* code points of the non-ASCII characters of the model
CodePoint == [c \in {"U+00C9", "U+00E9"} |-> IF c = "U+00C9" THEN 201 ELSE 233]

HexDigits == <<"0", "1", "2", "3", "4", "5", "6", "7", "8", "9",
               "a", "b", "c", "d", "e", "f">>

\* the escape \uXXXX of a code point below 0x10000
UnicodeEscape(cp) ==
  <<"\\", "u", HexDigits[((cp \div 4096) % 16) + 1], HexDigits[((cp \div 256) % 16) + 1],
    HexDigits[((cp \div 16) % 16) + 1], HexDigits[(cp % 16) + 1]>>

\* how the encoder writes one character of a str
EncodeChar(c, ensure_ascii) ==
  IF c = "\"" THEN <<"\\", "\"">>
  ELSE IF c = "\\" THEN <<"\\", "\\">>
  ELSE IF c = "\n" THEN <<"\\", "n">>
  ELSE IF c = "\r" THEN <<"\\", "r">>
  ELSE IF c = "\t" THEN <<"\\", "t">>
  ELSE IF c \in DOMAIN CodePoint /\ ensure_ascii THEN UnicodeEscape(CodePoint[c])
  ELSE <<c>>

RECURSIVE EncodeChars(_, _)
EncodeChars(s, ensure_ascii) ==
  IF s = <<>> THEN <<>>
  ELSE EncodeChar(Head(s), ensure_ascii) \o EncodeChars(Tail(s), ensure_ascii)

EncodeStr(s, ensure_ascii) == <<"\"">> \o EncodeChars(s, ensure_ascii) \o <<"\"">>

\* a newline followed by the indentation of a nesting level (indent=2)
NewlineIndent(level) == <<"\n">> \o [i \in 1..(2 * level) |-> " "]

RECURSIVE Dumps(_, _, _)
RECURSIVE DumpItems(_, _, _, _)
\* the items of a list or dict, separated by "," and a new line
DumpItems(x, i, level, ensure_ascii) ==
  IF i > Len(Iter(x)) THEN <<>>
  ELSE (IF i > 1 THEN <<",">> ELSE <<>>)
       \o NewlineIndent(level)
       \o (IF IsDict(x)
             THEN EncodeStr(x.pairs[i].k, ensure_ascii) \o <<":", " ">>
                    \o Dumps(x.pairs[i].v, level, ensure_ascii)
             ELSE Dumps(x.items[i], level, ensure_ascii))
       \o DumpItems(x, i + 1, level, ensure_ascii)

Dumps(x, level, ensure_ascii) ==
  IF IsNull(x) THEN <<"n", "u", "l", "l">>
  ELSE IF IsStr(x) THEN EncodeStr(x.chars, ensure_ascii)
  ELSE IF Iter(x) = <<>> THEN (IF IsDict(x) THEN <<"{", "}">> ELSE <<"[", "]">>)
  ELSE <<IF IsDict(x) THEN "{" ELSE "[">>
       \o DumpItems(x, 1, level + 1, ensure_ascii)
       \o NewlineIndent(level)
       \o <<IF IsDict(x) THEN "}" ELSE "]">>

\* json.dump(skill_tree, f, indent=2, ensure_ascii=False)
JsonFileText(tree) == Dumps(tree, 0, FALSE)

\* json.dumps(skill_tree, indent=2)
HtmlJsonText(tree) == Dumps(tree, 0, TRUE)

\* html_template: the text before the marker and the text after it are
\* fixed and hold no other occurrence of the marker; each is one element
TemplateHead == <<"<template: <!DOCTYPE html> ... const skillTreeData = >">>
TemplateTail == <<"<template: ; ... </html>>">>
html_template == TemplateHead \o S_SKILL_TREE_DATA \o TemplateTail

\* str.replace(old, new): every occurrence, scanning left to right
RECURSIVE Replace(_, _, _)
Replace(s, old, new) ==
  IF Len(s) < Len(old) THEN s
  ELSE IF StartsWith(s, old)
    THEN new \o Replace(SubSeq(s, Len(old) + 1, Len(s)), old, new)
    ELSE <<Head(s)>> \o Replace(Tail(s), old, new)

\* generate_html_visualization: the text written to output_path
HtmlContent(tree) == Replace(html_template, S_SKILL_TREE_DATA, HtmlJsonText(tree))

----------------------------------------------------------------------------
(* Inputs: what the remote service answers, and the records passed to      *)
(* build_skill_tree.                                                       *)

S_cloud_platforms == <<"c", "l", "o", "u", "d", "_", "p", "l", "a", "t", "f", "o", "r", "m", "s">>
S_databases == <<"d", "a", "t", "a", "b", "a", "s", "e", "s">>
S_tools == <<"t", "o", "o", "l", "s">>

\* skill names: "AWS", "Café" (a non-ASCII character), and the text
\* of the template's marker
N_AWS == Str(<<"A", "W", "S">>)
N_Cafe == Str(<<"C", "a", "f", "U+00E9">>)
N_Marker == Str(S_SKILL_TREE_DATA)

\* a record of the schema the prompt asks for
SkillRecord(technical, soft_skills, domains, certifications) ==
  JDict(<<
    [k |-> S_skills,
     v |-> JDict(<<
             [k |-> S_technical, v |-> JDict(technical)],
             [k |-> S_soft_skills, v |-> JList(soft_skills)],
             [k |-> S_domains, v |-> JList(domains)],
             [k |-> S_certifications, v |-> JList(certifications)] >>)],
    [k |-> S_experience_levels, v |-> JDict(<<>>)],
    [k |-> S_skill_relationships, v |-> JList(<<>>)] >>)

\* JSON documents the message content may hold: two records of the schema,
\* and documents that are valid JSON of another shape
SchemaDocs ==
  { SkillRecord(<<[k |-> S_cloud_platforms, v |-> JList(<<N_AWS>>)],
                  [k |-> S_databases, v |-> JList(<<>>)]>>,
                <<>>, <<N_Cafe>>, <<N_Marker>>),
    SkillRecord(<<>>, <<>>, <<>>, <<>>) }

OtherDocs ==
  { JList(<<>>),
    Str(<<"x">>),
    JNull,
    JDict(<<[k |-> S_skills, v |-> JList(<<>>)]>>),
    JDict(<<[k |-> S_skills,
             v |-> JDict(<<[k |-> S_technical, v |-> JList(<<N_AWS>>)]>>)]>>) }

RemoteDocs == SchemaDocs \cup OtherDocs

\* the layouts of the message content around one block x
ContentsAround(x) ==
  { <<x>>,
    <<Fence(0), x, Fence(0)>>,
    <<Blank, Fence(1), x, Fence(1), Blank>>,
    <<x, Fence(0)>> }

Contents ==
  UNION {ContentsAround(JsonText(d)) : d \in RemoteDocs}
    \cup ContentsAround(Prose)
    \cup { <<>>, <<Fence(0)>>,
           <<Fence(0), JsonText(JList(<<>>)), JsonText(JList(<<>>)), Fence(0)>> }

\* JSON bodies that lack choices, message or content, or hold another type
OddBodies ==
  { JList(<<>>),
    JDict(<<>>),
    JDict(<<[k |-> S_choices, v |-> JList(<<>>)]>>),
    JDict(<<[k |-> S_choices, v |-> JNull]>>),
    JDict(<<[k |-> S_choices, v |-> JList(<<JDict(<<>>)>>)]>>),
    JDict(<<[k |-> S_choices,
             v |-> JList(<<JDict(<<[k |-> S_message, v |-> JDict(<<>>)]>>)>>)]>>),
    JDict(<<[k |-> S_choices,
             v |-> JList(<<JDict(<<[k |-> S_message, v |-> JNull]>>)>>)]>>) }

Responses ==
  { TransportError, HttpError, BodyNotJson("json"), BodyNotJson("simplejson"),
    BodyWithContent(JNull) }
    \cup {Body(b) : b \in OddBodies}
    \cup {BodyWithContent(Text(c)) : c \in Contents}

\* Records passed to build_skill_tree directly.  Every field is present or
\* absent on its own; a field is given as the sequence of its pairs in the
\* enclosing dict: none when it is absent, one when it is present.
Absent == <<>>
Present(key, value) == <<[k |-> key, v |-> value]>>

SkillNames == {N_AWS, N_Cafe}
SkillLists == SeqsUpTo(SkillNames, MaxSkills)
CategoryKeys == {S_cloud_platforms, S_databases, S_tools}
CategoryLists == {<<>>, <<N_Cafe, N_AWS>>}

\* the "technical" mappings: up to MaxCats categories with distinct keys
RECURSIVE TechnicalDicts(_)
TechnicalDicts(n) ==
  IF n = 0 THEN {<<>>}
  ELSE LET shorter == TechnicalDicts(n - 1)
       IN  shorter \cup
             { Append(d, [k |-> key, v |-> JList(list)]) :
                 d \in {e \in shorter : Len(e) = n - 1 /\ n <= Cardinality(CategoryKeys)},
                 key \in CategoryKeys, list \in CategoryLists }

DistinctKeys(pairs) ==
  \A i, j \in DOMAIN pairs : pairs[i].k = pairs[j].k => i = j

TechnicalOptions ==
  {Absent} \cup
    {Present(S_technical, JDict(d)) : d \in {e \in TechnicalDicts(MaxCats) : DistinctKeys(e)}}

ListOptions(key, lists) == {Absent} \cup {Present(key, JList(l)) : l \in lists}

SkillsOptions ==
  {Absent} \cup
    { Present(S_skills, JDict(technical \o soft \o domains \o certifications)) :
        technical \in TechnicalOptions,
        soft \in ListOptions(S_soft_skills, {<<>>, <<N_AWS>>}),
        domains \in ListOptions(S_domains, {<<>>, <<N_Cafe>>}),
        certifications \in ListOptions(S_certifications, SkillLists) }

SkillRecords ==
  { JDict(skills \o levels \o relationships) :
      skills \in SkillsOptions,
      levels \in {Absent, Present(S_experience_levels, JDict(<<>>))},
      relationships \in {Absent, Present(S_skill_relationships, JList(<<>>))} }

\* Texts passed to _fallback_skill_extraction directly: up to MaxWords
\* words, each followed by a space.
Words ==
  { <<"D", "j", "a", "n", "g", "o">>,
    <<"p", "o", "s", "t", "g", "r", "e", "S", "Q", "L">>,
    <<"j", "a", "v", "a", "s", "c", "r", "i", "p", "t">>,
    <<"G", "I", "T">>,
    <<"C", "+", "+">> }

RECURSIVE Join(_)
Join(words) ==
  IF words = <<>> THEN <<>> ELSE Head(words) \o <<" ">> \o Join(Tail(words))

Texts == {Join(w) : w \in SeqsUpTo(Words, MaxWords)}

----------------------------------------------------------------------------
(* State.                                                                  *)

VARIABLES
  pc,             \* where the run is
  pdfplumber,     \* the module-level import of pdfplumber succeeded
  PyPDF2,         \* the module-level import of PyPDF2 succeeded
  api_key,        \* self.api_key is set (a credential is configured)
  extraction,     \* what extract_text_from_pdf did (its result record)
  resume_text,    \* the text extract_text_from_pdf returned
  response,       \* what the remote call did
  skill_data,     \* the record the classifier returned
  skill_tree,     \* the tree build_skill_tree returned
  json_file,      \* the content of output_json
  html_file,      \* the content of output_html
  raised,         \* the exception that left the run, or "none"
  stages,         \* the stages of the run, in the order they were entered
  remote_calls,   \* the number of requests.post calls made
  fallback_calls  \* the number of _fallback_skill_extraction calls made

vars == <<pc, pdfplumber, PyPDF2, api_key, extraction, resume_text, response,
          skill_data, skill_tree, json_file, html_file, raised, stages,
          remote_calls, fallback_calls>>

\* a file the run has not written
Untouched == <<"<untouched>">>

NoExtraction ==
  [kind |-> "none", exc |-> "none", value |-> <<>>, text |-> <<>>,
   aTried |-> FALSE, aRaised |-> FALSE, aText |-> <<>>,
   bTried |-> FALSE, bRaised |-> FALSE]

NoResponse == [kind |-> "none", jsonlib |-> "none", body |-> JNull]

Init ==
  /\ pc = "start"
  /\ pdfplumber \in BOOLEAN
  /\ PyPDF2 \in BOOLEAN
  /\ api_key \in BOOLEAN
  /\ extraction = NoExtraction
  /\ resume_text = <<>>
  /\ response = NoResponse
  /\ skill_data = JNull
  /\ skill_tree = JNull
  /\ json_file = Untouched
  /\ html_file = Untouched
  /\ raised = "none"
  /\ stages = <<>>
  /\ remote_calls = 0
  /\ fallback_calls = 0

\* main() without the `return` after the error message
MainCheckNoReturn ==
  /\ pc = "start"
  /\ \E exists \in BOOLEAN :
       /\ pc' = "extract"
       /\ stages' = IF exists THEN stages ELSE Append(stages, "missing")
  /\ UNCHANGED <<pdfplumber, PyPDF2, api_key, extraction, resume_text,
                 response, skill_data, skill_tree, json_file, html_file,
                 raised, remote_calls, fallback_calls>>

\* main(): the os.path.exists check; a missing document ends the run
MainCheck ==
  /\ pc = "start"
  /\ \E exists \in BOOLEAN :
       /\ pc' = IF exists THEN "extract" ELSE "done"
       /\ stages' = IF exists THEN stages ELSE Append(stages, "missing")
  /\ UNCHANGED <<pdfplumber, PyPDF2, api_key, extraction, resume_text,
                 response, skill_data, skill_tree, json_file, html_file,
                 raised, remote_calls, fallback_calls>>

\* generate_skill_tree: resume_text = self.extract_text_from_pdf(pdf_path)
Extract ==
  /\ pc = "extract"
  /\ \E viewA \in DocumentViews, viewB \in DocumentViews :
       LET r == ExtractTextFromPdf(pdfplumber, PyPDF2, viewA, viewB)
       IN  /\ extraction' = r
           /\ resume_text' = r.value
           /\ raised' = r.exc
           /\ pc' = IF r.kind = "return" THEN "classify" ELSE "done"
  /\ stages' = Append(stages, "extract")
  /\ UNCHANGED <<pdfplumber, PyPDF2, api_key, response, skill_data,
                 skill_tree, json_file, html_file, remote_calls,
                 fallback_calls>>

\* generate_skill_tree: `if self.api_key:` skill_data =
\* self.analyze_resume_with_xai(resume_text)
ClassifyRemote ==
  /\ pc = "classify"
  /\ api_key
  /\ \E resp \in Responses :
       LET r == AnalyzeResumeWithXai(resume_text, resp)
       IN  /\ response' = resp
           /\ skill_data' = r.value
           /\ fallback_calls' = fallback_calls + r.fallbacks
           /\ raised' = r.exc
           /\ pc' = IF r.kind = "return" THEN "build" ELSE "done"
  /\ remote_calls' = remote_calls + 1
  /\ stages' = Append(stages, "classify")
  /\ UNCHANGED <<pdfplumber, PyPDF2, api_key, extraction, resume_text,
                 skill_tree, json_file, html_file>>

\* generate_skill_tree: `else:` skill_data =
\* self._fallback_skill_extraction(resume_text)
ClassifyFallback ==
  /\ pc = "classify"
  /\ ~api_key
  /\ skill_data' = FallbackSkillExtraction(resume_text)
  /\ fallback_calls' = fallback_calls + 1
  /\ pc' = "build"
  /\ stages' = Append(stages, "classify")
  /\ UNCHANGED <<pdfplumber, PyPDF2, api_key, extraction, resume_text,
                 response, skill_tree, json_file, html_file, raised,
                 remote_calls>>

\* generate_skill_tree: skill_tree = self.build_skill_tree(skill_data)
Build ==
  /\ pc = "build"
  /\ LET r == BuildSkillTree(skill_data)
     IN  /\ skill_tree' = r.value
         /\ raised' = r.exc
         /\ pc' = IF r.kind = "return" THEN "write_json" ELSE "done"
  /\ stages' = Append(stages, "build")
  /\ UNCHANGED <<pdfplumber, PyPDF2, api_key, extraction, resume_text,
                 response, skill_data, json_file, html_file, remote_calls,
                 fallback_calls>>

\* generate_skill_tree: the JSON file is opened and written, or open()
\* raises and the file is left as it was
WriteJson ==
  /\ pc = "write_json"
  /\ \E writable \in BOOLEAN :
       /\ json_file' = IF writable THEN JsonFileText(skill_tree) ELSE json_file
       /\ raised' = IF writable THEN "none" ELSE "OSError"
       /\ pc' = IF writable THEN "write_html" ELSE "done"
  /\ stages' = Append(stages, "write_json")
  /\ UNCHANGED <<pdfplumber, PyPDF2, api_key, extraction, resume_text,
                 response, skill_data, skill_tree, html_file, remote_calls,
                 fallback_calls>>

\* generate_skill_tree: self.generate_html_visualization(skill_tree,
\* output_html), then the return to main
WriteHtml ==
  /\ pc = "write_html"
  /\ \E writable \in BOOLEAN :
       /\ html_file' = IF writable THEN HtmlContent(skill_tree) ELSE html_file
       /\ raised' = IF writable THEN "none" ELSE "OSError"
  /\ pc' = "done"
  /\ stages' = Append(stages, "write_html")
  /\ UNCHANGED <<pdfplumber, PyPDF2, api_key, extraction, resume_text,
                 response, skill_data, skill_tree, json_file, remote_calls,
                 fallback_calls>>

\* a caller invokes generator.build_skill_tree(record)
BuildSkillTreeCall ==
  /\ pc = "start"
  /\ \E record \in SkillRecords :
       LET r == BuildSkillTree(record)
       IN  /\ skill_data' = record
           /\ skill_tree' = r.value
           /\ raised' = r.exc
  /\ pc' = "returned"
  /\ stages' = Append(stages, "build")
  /\ UNCHANGED <<pdfplumber, PyPDF2, api_key, extraction, resume_text,
                 response, json_file, html_file, remote_calls,
                 fallback_calls>>

\* a caller invokes generator._fallback_skill_extraction(text)
FallbackCall ==
  /\ pc = "start"
  /\ \E text \in Texts :
       /\ resume_text' = text
       /\ skill_data' = FallbackSkillExtraction(text)
  /\ fallback_calls' = fallback_calls + 1
  /\ pc' = "returned"
  /\ stages' = Append(stages, "classify")
  /\ UNCHANGED <<pdfplumber, PyPDF2, api_key, extraction, response,
                 skill_tree, json_file, html_file, raised, remote_calls>>

Next ==
  \/ MainCheck
  \/ BuildSkillTreeCall
  \/ FallbackCall
  \/ Extract
  \/ ClassifyRemote
  \/ ClassifyFallback
  \/ Build
  \/ WriteJson
  \/ WriteHtml

Spec == Init /\ [][Next]_vars

----------------------------------------------------------------------------
(* Properties.                                                             *)

\* the stage the run entered last
LastStage == IF stages = <<>> THEN "none" ELSE stages[Len(stages)]

\* analyze_resume_with_xai has just been called and has ended
RemoteClassified == LastStage = "classify" /\ response.kind # "none"

\* the message content of the response, when the body reaches json.loads
ContentOf(resp) == GetContent(resp.body).content

\* the response carries a message content that is a str
HasTextContent(resp) ==
  /\ resp.kind = "body"
  /\ GetContent(resp.body).exc = "none"
  /\ ContentOf(resp).t = "text"

\* C1: analyze_resume_with_xai never fails outward: whatever the single
\* remote call does, the method returns a record and no exception reaches
\* the caller.
C1_NeverFailsOutward ==
  RemoteClassified => pc = "build" /\ raised = "none"

\* the remote call failed: a transport error, a non-success status, or a
\* malformed body (an HTTP body that is not JSON, or a message content that
\* is not JSON once the code fences are removed)
RemoteFailed(resp) ==
  \/ resp.kind \in {"transport_error", "http_error", "body_not_json"}
  \/ /\ HasTextContent(resp)
     /\ ~JsonLoads(RemoveCodeFences(ContentOf(resp).segments)).ok

\* C2: when the remote call fails, the record analyze_resume_with_xai
\* returns is the record of _fallback_skill_extraction for that text, and
\* the fallback has run exactly once.
C2_FailureYieldsFallbackRecord ==
  (RemoteClassified /\ RemoteFailed(response)) =>
    /\ pc = "build"
    /\ fallback_calls = 1
    /\ skill_data = FallbackSkillExtraction(resume_text)

\* a JSON value of the shape of the skill-record schema: an object whose
\* "skills" member, when present, is an object whose "technical" member,
\* when present, is an object
MatchesSchema(doc) ==
  /\ IsDict(doc)
  /\ Has(doc, S_skills) =>
       /\ IsDict(Item(doc, S_skills))
       /\ Has(Item(doc, S_skills), S_technical) =>
            IsDict(Item(Item(doc, S_skills), S_technical))

\* the message content, once the code fences are removed, is valid JSON
\* that does not match the schema
RemoteOffSchema(resp) ==
  /\ HasTextContent(resp)
  /\ LET parsed == JsonLoads(RemoveCodeFences(ContentOf(resp).segments))
     IN  parsed.ok /\ ~MatchesSchema(parsed.value)

\* C3: when the message content is valid JSON that does not match the
\* skill-record schema, analyze_resume_with_xai returns the record of the
\* keyword fallback, not the remote value.
C3_OffSchemaFallsBack ==
  (RemoteClassified /\ RemoteOffSchema(response)) =>
    /\ pc = "build"
    /\ skill_data = FallbackSkillExtraction(resume_text)

\* C4: extract_text_from_pdf never returns an empty string: it returns a
\* text that is non-empty after trimming, or it raises.
C4_ExtractedTextNonEmpty ==
  extraction.kind = "return" => Strip(resume_text) # <<>>

\* a keyword occurs in the text, letter case ignored: at some offset every
\* character of the keyword equals the character of the text up to case
OccursIgnoringCase(keyword, text) ==
  \E offset \in 0..(Len(text) - Len(keyword)) :
    \A j \in 1..Len(keyword) :
      LowerChar(text[offset + j]) = LowerChar(keyword[j])

\* the keywords of a table row that occur in the text, in table order
MatchedKeywords(row, text) ==
  LET hits == SelectSeq(row.keywords, LAMBDA kw : OccursIgnoringCase(kw, text))
  IN  [i \in DOMAIN hits |-> Str(hits[i])]

\* the record came from the keyword fallback
FromFallback == fallback_calls = 1

\* C5: in the record of the keyword fallback, each technical category holds
\* exactly the keywords of its table row that occur in the text ignoring
\* case, in the table's order; soft_skills, domains, certifications,
\* experience_levels and skill_relationships are empty.  (The record is a
\* function of the text alone, so two calls on one text agree.)
C5_FallbackRecord ==
  FromFallback =>
    /\ IsDict(skill_data)
    /\ [i \in DOMAIN skill_data.pairs |-> skill_data.pairs[i].k]
         = <<S_skills, S_experience_levels, S_skill_relationships>>
    /\ Item(skill_data, S_experience_levels) = JDict(<<>>)
    /\ Item(skill_data, S_skill_relationships) = JList(<<>>)
    /\ LET skills == Item(skill_data, S_skills)
       IN  /\ [i \in DOMAIN skills.pairs |-> skills.pairs[i].k]
                = <<S_technical, S_soft_skills, S_domains, S_certifications>>
           /\ Item(skills, S_soft_skills) = JList(<<>>)
           /\ Item(skills, S_domains) = JList(<<>>)
           /\ Item(skills, S_certifications) = JList(<<>>)
           /\ LET technical == Item(skills, S_technical)
              IN  /\ IsDict(technical)
                  /\ Len(technical.pairs) = Len(tech_keywords)
                  /\ \A i \in DOMAIN tech_keywords :
                       /\ technical.pairs[i].k = tech_keywords[i].key
                       /\ technical.pairs[i].v
                            = JList(MatchedKeywords(tech_keywords[i], resume_text))

\* the fallback ran on "postgreSQL Django ", where "sql" comes before "go"
\* and the letter case differs from the table's: the list is in table order
C5_Witness ==
  /\ FromFallback
  /\ resume_text = Join(<< <<"p", "o", "s", "t", "g", "r", "e", "S", "Q", "L">>,
                           <<"D", "j", "a", "n", "g", "o">> >>)
  /\ Item(Item(Item(skill_data, S_skills), S_technical), tech_keywords[1].key)
       = JList(<<Str(<<"G", "o">>), Str(<<"S", "Q", "L">>), Str(<<"R">>)>>)

\* build_skill_tree has been called
Built == \E i \in DOMAIN stages : stages[i] = "build"

\* a list of strings
IsStrList(x) == IsList(x) /\ \A i \in DOMAIN x.items : IsStr(x.items[i])

\* a skill record: every field may be absent; a field that is present has
\* the type the schema gives it
IsSkillRecord(rec) ==
  /\ IsDict(rec)
  /\ Has(rec, S_skills) =>
       LET skills == Item(rec, S_skills)
       IN  /\ IsDict(skills)
           /\ Has(skills, S_technical) =>
                /\ IsDict(Item(skills, S_technical))
                /\ \A i \in DOMAIN Item(skills, S_technical).pairs :
                     IsStrList(Item(skills, S_technical).pairs[i].v)
           /\ \A key \in {S_soft_skills, S_domains, S_certifications} :
                Has(skills, key) => IsStrList(Item(skills, key))

\* the strings of a list field of a skill record; none when it is absent
FieldItems(rec, key) ==
  IF Has(rec, S_skills) /\ Has(Item(rec, S_skills), key)
    THEN Item(Item(rec, S_skills), key).items
    ELSE <<>>

\* the categories of a skill record, in key order; none when absent
TechnicalPairs(rec) ==
  IF Has(rec, S_skills) /\ Has(Item(rec, S_skills), S_technical)
    THEN Item(Item(rec, S_skills), S_technical).pairs
    ELSE <<>>

\* the categories whose list is not empty
NonEmptyCategories(rec) ==
  SelectSeq(TechnicalPairs(rec), LAMBDA p : p.v.items # <<>>)

\* the label of a category key: underscores become spaces and each word is
\* capitalised
CategoryLabels ==
  << [key |-> tech_keywords[1].key,
      label |-> <<"P", "r", "o", "g", "r", "a", "m", "m", "i", "n", "g", " ",
                  "L", "a", "n", "g", "u", "a", "g", "e", "s">>],
     [key |-> tech_keywords[2].key,
      label |-> <<"F", "r", "a", "m", "e", "w", "o", "r", "k", "s">>],
     [key |-> S_tools, label |-> <<"T", "o", "o", "l", "s">>],
     [key |-> S_databases,
      label |-> <<"D", "a", "t", "a", "b", "a", "s", "e", "s">>],
     [key |-> S_cloud_platforms,
      label |-> <<"C", "l", "o", "u", "d", " ", "P", "l", "a", "t", "f", "o", "r", "m", "s">>] >>

LabelOf(key) ==
  CategoryLabels[CHOOSE i \in DOMAIN CategoryLabels : CategoryLabels[i].key = key].label

NameOf(node) == Item(node, S_name)
ChildrenOf(node) == Item(node, S_children).items

\* a node with exactly a name and children
IsBranch(node, name) ==
  /\ IsDict(node)
  /\ [i \in DOMAIN node.pairs |-> node.pairs[i].k] = <<S_name, S_children>>
  /\ NameOf(node) = Str(name)
  /\ IsList(Item(node, S_children))

\* the nodes are the leaves of the strings, one each, in order, with the tag
AreLeavesOf(nodes, strings, tag) ==
  /\ Len(nodes) = Len(strings)
  /\ \A i \in DOMAIN nodes :
       nodes[i] = JDict(<<[k |-> S_name, v |-> strings[i]],
                          [k |-> S_type, v |-> Str(tag)]>>)

\* the branches a record must give, in the fixed order
ExpectedBranches(rec) ==
  (IF NonEmptyCategories(rec) # <<>> THEN <<"technical">> ELSE <<>>)
    \o (IF FieldItems(rec, S_soft_skills) # <<>> THEN <<"soft_skills">> ELSE <<>>)
    \o (IF FieldItems(rec, S_domains) # <<>> THEN <<"domains">> ELSE <<>>)
    \o (IF FieldItems(rec, S_certifications) # <<>> THEN <<"certifications">> ELSE <<>>)

\* the node is the branch of the record that `branch` names
IsBranchOf(node, branch, rec) ==
  IF branch = "technical" THEN
    /\ IsBranch(node, S_Technical_Skills)
    /\ LET categories == NonEmptyCategories(rec)
       IN  /\ Len(ChildrenOf(node)) = Len(categories)
           /\ \A j \in DOMAIN categories :
                /\ IsBranch(ChildrenOf(node)[j], LabelOf(categories[j].k))
                /\ AreLeavesOf(ChildrenOf(ChildrenOf(node)[j]),
                               categories[j].v.items, S_skill)
  ELSE IF branch = "soft_skills" THEN
    /\ IsBranch(node, S_Soft_Skills)
    /\ AreLeavesOf(ChildrenOf(node), FieldItems(rec, S_soft_skills), S_skill)
  ELSE IF branch = "domains" THEN
    /\ IsBranch(node, S_Domain_Expertise)
    /\ AreLeavesOf(ChildrenOf(node), FieldItems(rec, S_domains), S_skill)
  ELSE
    /\ IsBranch(node, S_Certifications)
    /\ AreLeavesOf(ChildrenOf(node), FieldItems(rec, S_certifications), S_certification)

\* C6: for every skill record build_skill_tree returns a root "Skills"
\* whose children are, in this order and each present exactly when its
\* source is not empty: "Technical Skills" (one node per non-empty
\* category, in key order, named by the category's label), "Soft Skills",
\* "Domain Expertise", "Certifications"; every leaf is one input string, in
\* order, tagged "certification" under Certifications and "skill"
\* elsewhere; there is no other branch.
C6_TreeShape ==
  (Built /\ IsSkillRecord(skill_data)) =>
    /\ IsBranch(skill_tree, S_Skills)
    /\ Len(ChildrenOf(skill_tree)) = Len(ExpectedBranches(skill_data))
    /\ \A i \in DOMAIN ExpectedBranches(skill_data) :
         IsBranchOf(ChildrenOf(skill_tree)[i], ExpectedBranches(skill_data)[i], skill_data)

\* a tree was built with all four branches, from a record with an empty
\* category between two non-empty ones
C6_Witness ==
  /\ Built
  /\ IsSkillRecord(skill_data)
  /\ ExpectedBranches(skill_data) = <<"technical", "soft_skills", "domains", "certifications">>
  /\ Len(TechnicalPairs(skill_data)) > Len(NonEmptyCategories(skill_data))
  /\ Len(ChildrenOf(skill_tree)) = 4

\* the record with every absent field added as an empty collection
FillAbsent(rec) ==
  SkillRecord(TechnicalPairs(rec), FieldItems(rec, S_soft_skills),
              FieldItems(rec, S_domains), FieldItems(rec, S_certifications))

\* C7: build_skill_tree succeeds on a record whatever fields are absent,
\* and returns the tree it returns for the record with those fields present
\* and empty; a record with nothing in it gives the root "Skills" with no
\* children.
C7_AbsentIsEmpty ==
  (Built /\ IsSkillRecord(skill_data)) =>
    /\ raised \notin {"AttributeError", "TypeError", "KeyError"}
    /\ BuildSkillTree(FillAbsent(skill_data)).kind = "return"
    /\ skill_tree = BuildSkillTree(FillAbsent(skill_data)).value
    /\ ExpectedBranches(skill_data) = <<>> =>
         skill_tree = JDict(<<[k |-> S_name, v |-> Str(S_Skills)],
                              [k |-> S_children, v |-> JList(<<>>)]>>)

\* a tree was built from a record whose "skills" lacks "technical" and
\* "domains" and has certifications
C7_Witness ==
  /\ Built
  /\ IsSkillRecord(skill_data)
  /\ Has(skill_data, S_skills)
  /\ ~Has(Item(skill_data, S_skills), S_technical)
  /\ ~Has(Item(skill_data, S_skills), S_domains)
  /\ ExpectedBranches(skill_data) = <<"certifications">>
  /\ Len(ChildrenOf(skill_tree)) = 1

\* the HTML file has been written
HtmlWritten == html_file # Untouched

\* C8: the HTML file is the template with its marker replaced by the very
\* text that was written to the JSON file.
C8_HtmlEmbedsJsonFileText ==
  HtmlWritten => html_file = TemplateHead \o json_file \o TemplateTail

\* extract_text_from_pdf has been called and has ended
Extracted == extraction.kind # "none"

\* C9: a backend that raises counts as having produced no text: PyPDF2 is
\* attempted whenever it is available and pdfplumber is unavailable, raised
\* or yielded no text, and the text returned never comes from a backend
\* that raised.
C9_AllOrNothing ==
  Extracted =>
    /\ (PyPDF2 /\ (~pdfplumber \/ extraction.aRaised \/ extraction.aText = <<>>))
         => extraction.bTried
    /\ extraction.kind = "return" =>
         IF extraction.bTried THEN ~extraction.bRaised ELSE ~extraction.aRaised

\* the stages of a run of main, in order
PipelineStages == <<"extract", "classify", "build", "write_json", "write_html">>

\* a run of main (not a direct call of one method)
InMain == pc \notin {"start", "returned"}

\* C10: in a run of main the stages are entered in the order extract,
\* classify, build, write JSON, write HTML, and no output file is written
\* unless extraction has returned: a run that ends on a missing document,
\* with no backend available, or with no text from any backend leaves both
\* files as they were.
C10_StagesInOrder ==
  InMain =>
    /\ \/ stages = <<"missing">>
       \/ /\ Len(stages) <= Len(PipelineStages)
          /\ stages = SubSeq(PipelineStages, 1, Len(stages))
    /\ (json_file # Untouched \/ html_file # Untouched) => extraction.kind = "return"
    /\ html_file # Untouched => json_file # Untouched
    /\ ( \/ (stages # <<>> /\ stages[1] = "missing")
         \/ (Extracted /\ ~pdfplumber /\ ~PyPDF2)
         \/ (Extracted /\ extraction.text = <<>>) )
         => /\ pc = "done"
            /\ json_file = Untouched
            /\ html_file = Untouched

\* a run ended after extraction found no text in any backend, pdfplumber
\* having raised, and wrote no file
C10_Witness ==
  /\ pc = "done"
  /\ stages = <<"extract">>
  /\ extraction.aTried /\ extraction.aRaised /\ extraction.bTried
  /\ extraction.text = <<>>
  /\ raised = "Exception"
  /\ json_file = Untouched /\ html_file = Untouched

\* requests.post is called at most once in a run: no retry
AtMostOneRemoteCall == remote_calls <= 1

\* without a credential requests.post is never called
NoCredentialNoRemoteCall == ~api_key => remote_calls = 0

\* a run of main has just classified without a credential
ClassifiedWithoutCredential ==
  InMain /\ LastStage = "classify" /\ ~api_key

\* C11: in every run the remote call is made at most once and never
\* retried, and zero times when no credential is configured: without a
\* credential the record is the keyword fallback's and nothing is raised;
\* with a credential, a failure of the single call (a transport error or
\* timeout, a non-success status, a malformed body) leads to the fallback,
\* run once, with no second call.
C11_SingleRemoteAttempt ==
  /\ AtMostOneRemoteCall
  /\ NoCredentialNoRemoteCall
  /\ ClassifiedWithoutCredential =>
       /\ pc = "build"
       /\ raised = "none"
       /\ fallback_calls = 1
       /\ skill_data = FallbackSkillExtraction(resume_text)
  /\ (RemoteClassified /\ RemoteFailed(response)) =>
       /\ pc = "build"
       /\ raised = "none"
       /\ remote_calls = 1
       /\ fallback_calls = 1
       /\ skill_data = FallbackSkillExtraction(resume_text)

====
